---- MODULE Spec2Model ----
(***************************************************************************)
(* Model of backend/main.py: the record store (images, likes with the      *)
(* uix_image_user uniqueness constraint), the paginated feed (list_images) *)
(* and the like toggle (like_image).                                       *)
(*                                                                         *)
(* Time is counted in days.  A user hash is a sequence of characters, so   *)
(* that Python's truthiness test (`not s`) and "only whitespace" are       *)
(* different predicates.  The likes table is a bag of rows: the surrogate  *)
(* key Like.id is left out, so two rows of the same (image_id, user_hash,  *)
(* created_at) are two copies of one element and func.count(Like.id) is    *)
(* the number of copies.  SQLite serialises writers, so one commit is one  *)
(* step; reads outside a write transaction see the store as it is at the   *)
(* read.                                                                   *)
(***************************************************************************)
EXTENDS Integers, Sequences, FiniteSets, Bags, TLC

VARIABLES images, likes, now, req, listing, before

vars == <<images, likes, now, req, listing, before>>

---------------------------------------------------------------------------
(* Bounds of the model *)

MaxImages == 2
MaxTicks == 2
NumClients == 2
ConcImages == 1

(* Program constants *)

WINDOW_DAYS == 7
MIN_PAGE == 1
MIN_LIMIT == 1
MAX_LIMIT == 100
HTTP_OK == 200
HTTP_BAD_REQUEST == 400
HTTP_NOT_FOUND == 404

(* Inputs *)

Clients == 1..NumClients
UserHashes == {<<>>, <<" ">>, <<"u">>}
ValidHashes == {h \in UserHashes : Len(h) > 0}
ActionNames == {"like", "unlike", "bogus"}
RequestIds == 1..(MaxImages + 1)
SortNames == {"recent", "popular", "trending", "bogus"}
PageInputs == {-1, 0, 1, 2}
LimitInputs == {-1, 0, 1, 2, 500}
NoHash == [some |-> FALSE, val |-> <<>>]
SomeHash(h) == [some |-> TRUE, val |-> h]
ListHashes == {NoHash, SomeHash(<<>>), SomeHash(<<" ">>), SomeHash(<<"u">>)}

Max(a, b) == IF a >= b THEN a ELSE b
Min(a, b) == IF a <= b THEN a ELSE b

---------------------------------------------------------------------------
(* The record store *)

\* Python truthiness of a str: `not s` is true exactly for the empty string.
Truthy(s) == Len(s) > 0

\* Truthiness of an Optional[str]: None and "" are both falsy.
TruthyOpt(o) == o.some /\ Truthy(o.val)

ImageIds == 1..Len(images)

\* Variant: no existence check.
GetImageAny(image_id) == TRUE

\* db.get(Image, image_id)
GetImage(image_id) == image_id \in ImageIds

Like(image_id, user_hash, created_at) ==
    [image_id |-> image_id, user_hash |-> user_hash, created_at |-> created_at]

RECURSIVE Copies(_, _)
Copies(B, S) ==
    IF S = {} THEN 0
    ELSE LET r == CHOOSE x \in S : TRUE
         IN CopiesIn(r, B) + Copies(B, S \ {r})

\* Variant: the count without its image filter.
CountLikesAnyImage(image_id) ==
    Copies(likes, BagToSet(likes))

\* select count(Like.id) where Like.image_id == image_id
CountLikes(image_id) ==
    Copies(likes, {r \in BagToSet(likes) : r.image_id = image_id})

\* Variant: the table without its uniqueness constraint.
UniqueViolationOff(image_id, user_hash) == FALSE

\* UniqueConstraint("image_id", "user_hash"): the INSERT is refused when a row
\* of the pair is already stored.
UniqueViolation(image_id, user_hash) ==
    \E r \in BagToSet(likes) : r.image_id = image_id /\ r.user_hash = user_hash

\* db.add(like); db.commit()
InsertLike(image_id, user_hash) ==
    likes (+) SetToBag({Like(image_id, user_hash, now)})

\* Variant: the delete is never committed.
DeleteLikeNotCommitted(image_id, user_hash) == likes

\* Variant: the delete without its user_hash condition.
DeleteLikeAnyUser(image_id, user_hash) ==
    LET keep == {r \in BagToSet(likes) : r.image_id # image_id}
    IN [r \in keep |-> likes[r]]

\* delete(Like).where(Like.image_id == image_id, Like.user_hash == user_hash)
DeleteLike(image_id, user_hash) ==
    LET keep == {r \in BagToSet(likes) :
                    ~(r.image_id = image_id /\ r.user_hash = user_hash)}
    IN [r \in keep |-> likes[r]]

---------------------------------------------------------------------------
(* State *)

Idle ==
    [pc |-> "idle", image_id |-> 0, user_hash |-> <<>>, action |-> "",
     status |-> 0, likes_count |-> 0, liked_by_user |-> FALSE]

NoListing == [pc |-> "idle"]

Init ==
    /\ images = <<>>
    /\ likes = EmptyBag
    /\ now = 0
    /\ req = [c \in Clients |-> Idle]
    /\ listing = NoListing
    /\ before = EmptyBag

\* No request is being served.
Quiet == listing.pc = "idle" /\ \A c \in Clients : req[c].pc = "idle"

\* The clock moves on by one window length.
Tick ==
    /\ now' = now + WINDOW_DAYS
    /\ UNCHANGED <<images, likes, req, listing, before>>

\* upload_image / _create_image_record: one Image row, id assigned by the store.
UploadImage ==
    /\ images' = Append(images, [id |-> Len(images) + 1, created_at |-> now])
    /\ UNCHANGED <<likes, now, req, listing, before>>

---------------------------------------------------------------------------
(* like_image *)

\* Handler entry: the payload check, before any store access.
LikeImage(c, image_id, user_hash, action) ==
    /\ req[c].pc = "idle"
    /\ req' = [req EXCEPT ![c] =
          IF ~Truthy(user_hash) \/ action \notin {"like", "unlike"}
          THEN [Idle EXCEPT !.pc = "done", !.image_id = image_id,
                            !.user_hash = user_hash, !.action = action,
                            !.status = HTTP_BAD_REQUEST]
          ELSE [Idle EXCEPT !.pc = "get", !.image_id = image_id,
                            !.user_hash = user_hash, !.action = action]]
    /\ UNCHANGED <<images, likes, now, listing>>

\* img = db.get(Image, image_id); 404 when there is none.
LikeGet(c) ==
    /\ req[c].pc = "get"
    /\ req' = [req EXCEPT ![c] =
          IF ~GetImage(req[c].image_id)
          THEN [@ EXCEPT !.pc = "done", !.status = HTTP_NOT_FOUND]
          ELSE [@ EXCEPT !.pc = "commit"]]
    /\ UNCHANGED <<images, likes, now, listing, before>>

\* Variant: the IntegrityError of a duplicate like is not caught.
LikeCommitUncaught(c) ==
    /\ req[c].pc = "commit"
    /\ IF req[c].action = "like"
       THEN IF UniqueViolation(req[c].image_id, req[c].user_hash)
            THEN /\ likes' = likes
                 /\ req' = [req EXCEPT ![c].pc = "done", ![c].status = 500]
            ELSE /\ likes' = InsertLike(req[c].image_id, req[c].user_hash)
                 /\ req' = [req EXCEPT ![c].pc = "count"]
       ELSE /\ likes' = DeleteLike(req[c].image_id, req[c].user_hash)
            /\ req' = [req EXCEPT ![c].pc = "count"]
    /\ UNCHANGED <<images, now, listing, before>>

\* like: db.add(like); db.commit(), IntegrityError -> db.rollback()
\* unlike: db.execute(delete ...); db.commit()
LikeCommit(c) ==
    /\ req[c].pc = "commit"
    /\ likes' =
          IF req[c].action = "like"
          THEN IF UniqueViolation(req[c].image_id, req[c].user_hash)
               THEN likes
               ELSE InsertLike(req[c].image_id, req[c].user_hash)
          ELSE DeleteLike(req[c].image_id, req[c].user_hash)
    /\ req' = [req EXCEPT ![c].pc = "count"]
    /\ UNCHANGED <<images, now, listing, before>>

\* Variant: liked_by_user read back from the store with the count.
LikedByUserRead(c) == UniqueViolation(req[c].image_id, req[c].user_hash)

\* The value the handler reports as liked_by_user: a constant of the branch.
LikedByUser(c) == req[c].action = "like"

\* total = select count(Like.id) ...; the response is built.
LikeCount(c) ==
    /\ req[c].pc = "count"
    /\ req' = [req EXCEPT ![c] =
          [@ EXCEPT !.pc = "done", !.status = HTTP_OK,
                    !.likes_count = CountLikes(req[c].image_id),
                    !.liked_by_user = LikedByUser(c)]]
    /\ UNCHANGED <<images, likes, now, listing, before>>

\* The response has been sent.
LikeReturn(c) ==
    /\ req[c].pc = "done"
    /\ req' = [req EXCEPT ![c] = Idle]
    /\ before' = EmptyBag
    /\ UNCHANGED <<images, likes, now, listing>>

---------------------------------------------------------------------------
(* Aggregation helpers *)

\* _get_total_likes_for_ids: a mapping with an entry only for the ids that have
\* at least one Like row.
GetTotalLikesForIds(ids) ==
    IF ids = {} THEN [i \in {} |-> 0]
    ELSE [i \in {j \in ids : CountLikes(j) > 0} |-> CountLikes(i)]

\* dict.get(key, default)
MapGet(m, k, d) == IF k \in DOMAIN m THEN m[k] ELSE d

\* Variant: the lookup without its user_hash condition.
GetLikedIdsByAnyUser(ids, user_hash) ==
    IF ids = {} \/ ~Truthy(user_hash) THEN {}
    ELSE {r.image_id : r \in {x \in BagToSet(likes) : x.image_id \in ids}}

\* _get_liked_ids_by_user
GetLikedIdsByUser(ids, user_hash) ==
    IF ids = {} \/ ~Truthy(user_hash) THEN {}
    ELSE {r.image_id : r \in {x \in BagToSet(likes) :
                                 x.image_id \in ids /\ x.user_hash = user_hash}}

\* Variant: a like made exactly at the cutoff is left out.
LikesWeekStrict(image_id, cutoff) ==
    Copies(likes, {r \in BagToSet(likes) :
                      r.image_id = image_id /\ r.created_at > cutoff})

\* The correlated subquery of the trending sort: likes of the image created at
\* or after the cutoff.
LikesWeek(image_id, cutoff) ==
    Copies(likes, {r \in BagToSet(likes) :
                      r.image_id = image_id /\ r.created_at >= cutoff})

---------------------------------------------------------------------------
(* list_images *)

ClampPage(page) == Max(MIN_PAGE, page)
\* Variant: the limit capped but not floored.
ClampLimitNoFloor(limit) == Min(MAX_LIMIT, limit)

ClampLimit(limit) == Max(MIN_LIMIT, Min(MAX_LIMIT, limit))
Skip(page, limit) == (page - 1) * limit

\* The value the ORDER BY ... DESC of each sort strategy ranks an image by.
SortKey(sort, image_id, cutoff) ==
    IF sort = "recent" THEN images[image_id].created_at
    ELSE IF sort = "popular" THEN CountLikes(image_id)
    ELSE IF sort = "trending" THEN LikesWeek(image_id, cutoff)
    ELSE images[image_id].created_at

\* Every order of all image rows that is descending in the sort key; rows of
\* equal key come in an order the store chooses.
Orderings(sort, cutoff) ==
    {o \in [1..Len(images) -> ImageIds] :
        /\ \A i, j \in 1..Len(images) : i # j => o[i] # o[j]
        /\ \A i \in 1..(Len(images) - 1) :
              SortKey(sort, o[i], cutoff) >= SortKey(sort, o[i + 1], cutoff)}

\* .offset(skip).limit(limit)
Window(order, skip, limit) ==
    SubSeq(order, skip + 1, Min(Len(order), skip + limit))

ImageOut(image_id, likes_count, liked_by_user) ==
    [id |-> image_id, created_at |-> images[image_id].created_at,
     likes_count |-> likes_count, liked_by_user |-> liked_by_user]

\* The whole handler: clamping, the page query, the two batched lookups and
\* the assembly of the view models, against one state of the store.
ListImages(page0, limit0, sort, user_hash) ==
    /\ listing.pc = "idle"
    /\ LET page == ClampPage(page0)
           limit == ClampLimit(limit0)
           skip == Skip(page, limit)
           cutoff == now - WINDOW_DAYS
       IN \E o \in Orderings(sort, cutoff) :
             LET rows == Window(o, skip, limit)
                 ids == {rows[k] : k \in 1..Len(rows)}
                 total_likes_map == GetTotalLikesForIds(ids)
                 liked_ids == IF TruthyOpt(user_hash)
                              THEN GetLikedIdsByUser(ids, user_hash.val)
                              ELSE {}
             IN listing' =
                   [pc |-> "done", page0 |-> page0, limit0 |-> limit0,
                    sort |-> sort, user_hash |-> user_hash,
                    page |-> page, limit |-> limit, skip |-> skip, at |-> now,
                    items |-> [k \in 1..Len(rows) |->
                                 ImageOut(rows[k],
                                          MapGet(total_likes_map, rows[k], 0),
                                          rows[k] \in liked_ids)]]
    /\ UNCHANGED <<images, likes, now, req, before>>

\* The response has been sent.
ListReturn ==
    /\ listing.pc = "done"
    /\ listing' = NoListing
    /\ UNCHANGED <<images, likes, now, req, before>>

---------------------------------------------------------------------------

---------------------------------------------------------------------------
(* Properties *)

\* Number of rows of an image in a likes table.
RowsOf(B, image_id) ==
    BagCardinality([r \in {x \in BagToSet(B) : x.image_id = image_id} |-> B[r]])

\* Number of rows of an (image, user) pair in a likes table.
PairRows(B, image_id, user_hash) ==
    BagCardinality([r \in {x \in BagToSet(B) :
                              x.image_id = image_id /\ x.user_hash = user_hash}
                    |-> B[r]])

\* A request whose response is ready.
Done(c) == req[c].pc = "done"

\* Client c takes the step that leaves the given place of the handler.
Leaves(c, pc) == req[c].pc = pc /\ req'[c].pc # pc

\* C1: in every reachable state, whatever uploads, likes and unlikes the
\* clients have interleaved, every (image_id, user_hash) pair has at most one
\* Like row.
C1_UniquePair ==
    \A r \in BagToSet(likes) : PairRows(likes, r.image_id, r.user_hash) = 1

\* Two clients have both liked the same pair with success and one row is stored.
C1_Witness ==
    \E c, d \in Clients :
        /\ c # d /\ Done(c) /\ Done(d)
        /\ req[c].action = "like" /\ req[d].action = "like"
        /\ req[c].status = HTTP_OK /\ req[d].status = HTTP_OK
        /\ req[c].image_id = req[d].image_id
        /\ req[c].user_hash = req[d].user_hash
        /\ PairRows(likes, req[c].image_id, req[c].user_hash) = 1

\* C2: a like of an existing image by a non-empty user_hash, run on its own
\* from any state, ends without error with exactly one row for the pair,
\* liked_by_user = true and likes_count = the count before, plus one when the
\* pair had no row; when the pair had a row the table is left as it was.
C2_LikeIdempotent ==
    \A c \in Clients :
        (/\ Done(c) /\ req[c].action = "like"
         /\ Len(req[c].user_hash) > 0 /\ req[c].image_id \in 1..Len(images))
        => /\ req[c].status = HTTP_OK
           /\ PairRows(likes, req[c].image_id, req[c].user_hash) = 1
           /\ req[c].liked_by_user = TRUE
           /\ req[c].likes_count =
                 RowsOf(before, req[c].image_id)
                 + (IF PairRows(before, req[c].image_id, req[c].user_hash) = 0
                    THEN 1 ELSE 0)
           /\ (PairRows(before, req[c].image_id, req[c].user_hash) > 0
                 => likes = before)

\* A second like of a pair, on an image another user likes too, has returned.
C2_Witness ==
    \E c \in Clients :
        /\ Done(c) /\ req[c].action = "like" /\ req[c].status = HTTP_OK
        /\ PairRows(before, req[c].image_id, req[c].user_hash) = 1
        /\ req[c].likes_count = 2

\* C3: an unlike of an existing image by a non-empty user_hash, run on its
\* own from any state, ends without error with no row for the pair,
\* liked_by_user = false and likes_count = the count before, minus one when
\* the pair had a row; when the pair had no row the table is left as it was.
C3_UnlikeClears ==
    \A c \in Clients :
        (/\ Done(c) /\ req[c].action = "unlike"
         /\ Len(req[c].user_hash) > 0 /\ req[c].image_id \in 1..Len(images))
        => /\ req[c].status = HTTP_OK
           /\ PairRows(likes, req[c].image_id, req[c].user_hash) = 0
           /\ req[c].liked_by_user = FALSE
           /\ req[c].likes_count =
                 RowsOf(before, req[c].image_id)
                 - (IF PairRows(before, req[c].image_id, req[c].user_hash) > 0
                    THEN 1 ELSE 0)
           /\ (PairRows(before, req[c].image_id, req[c].user_hash) = 0
                 => likes = before)

\* The only like of an image has been taken back: the unlike returns 0.
C3_Witness ==
    \E c \in Clients :
        /\ Done(c) /\ req[c].action = "unlike" /\ req[c].status = HTTP_OK
        /\ RowsOf(before, req[c].image_id) = 1
        /\ PairRows(before, req[c].image_id, req[c].user_hash) = 1
        /\ req[c].likes_count = 0

\* A string of nothing but whitespace, the empty string included.
IsBlank(s) == \A k \in 1..Len(s) : s[k] = " "

\* C4 as stated: a request with a blank (empty or whitespace-only) user_hash,
\* or an action other than like and unlike, ends with 400; a request for an
\* image that does not exist ends with 404; and neither changes the likes.
C4_RejectsBlank ==
    \A c \in Clients :
        Done(c) =>
            /\ (IsBlank(req[c].user_hash) \/ req[c].action \notin {"like", "unlike"})
                  => (req[c].status = HTTP_BAD_REQUEST /\ likes = before)
            /\ (/\ ~IsBlank(req[c].user_hash)
                /\ req[c].action \in {"like", "unlike"}
                /\ req[c].image_id \notin 1..Len(images))
                  => (req[c].status = HTTP_NOT_FOUND /\ likes = before)

\* C4 amended: a request with an empty user_hash, or an action other than like
\* and unlike, ends with 400; a request that passes that check for an image
\* that does not exist ends with 404; neither changes the likes.  A
\* whitespace-only user_hash passes the check.
C4_RejectsEmpty ==
    \A c \in Clients :
        Done(c) =>
            /\ (req[c].user_hash = <<>> \/ req[c].action \notin {"like", "unlike"})
                  => (req[c].status = HTTP_BAD_REQUEST /\ likes = before)
            /\ (/\ req[c].user_hash # <<>>
                /\ req[c].action \in {"like", "unlike"}
                /\ req[c].image_id \notin 1..Len(images))
                  => (req[c].status = HTTP_NOT_FOUND /\ likes = before)
            /\ (/\ req[c].user_hash # <<>> /\ IsBlank(req[c].user_hash)
                /\ req[c].action \in {"like", "unlike"}
                /\ req[c].image_id \in 1..Len(images))
                  => req[c].status = HTTP_OK

\* A whitespace-only user_hash has been sent for an image that does not exist,
\* while the store holds likes.
C4_Witness ==
    \E c \in Clients :
        /\ Done(c) /\ req[c].status = HTTP_NOT_FOUND
        /\ req[c].user_hash = <<" ">>
        /\ likes # EmptyBag

\* C5: whatever the interleaving, a commit never ends a request in an error
\* and leaves the pair with one row after a like and none after an unlike; a
\* request that reaches its count query answers 200; and no other step
\* changes the likes.  So the pair is liked exactly when the last commit
\* applied to it was a like.
C5_RaceResolved ==
    [][/\ \A c \in Clients :
            /\ Leaves(c, "commit") =>
                  /\ req'[c].pc = "count"
                  /\ PairRows(likes', req[c].image_id, req[c].user_hash)
                        = (IF req[c].action = "like" THEN 1 ELSE 0)
            /\ Leaves(c, "count") =>
                  (req'[c].pc = "done" /\ req'[c].status = HTTP_OK)
       /\ (\A c \in Clients : ~Leaves(c, "commit")) => likes' = likes]_vars

\* A like and an unlike of one pair have both returned with success, and the
\* like was the later commit.
C5_Witness ==
    \E c, d \in Clients :
        /\ Done(c) /\ Done(d)
        /\ req[c].action = "like" /\ req[d].action = "unlike"
        /\ req[c].status = HTTP_OK /\ req[d].status = HTTP_OK
        /\ req[c].image_id = req[d].image_id
        /\ req[c].user_hash = req[d].user_hash
        /\ req[d].likes_count = 1
        /\ PairRows(likes, req[c].image_id, req[c].user_hash) = 1

\* C6 as stated: the count query returns the number of rows of the image at
\* that read, and liked_by_user tells whether the pair has a row at that read.
C6_BothRecomputed ==
    [][\A c \in Clients :
          Leaves(c, "count") =>
              /\ req'[c].likes_count = RowsOf(likes, req[c].image_id)
              /\ req'[c].liked_by_user
                    = (PairRows(likes, req[c].image_id, req[c].user_hash) > 0)]_vars

\* C6 amended: the count query returns the number of rows of the image at that
\* read; liked_by_user is true for a like and false for an unlike, which is
\* whether the pair has a row right after the request's own commit.
C6_CountRecomputed ==
    [][\A c \in Clients :
          /\ Leaves(c, "count") =>
                /\ req'[c].likes_count = RowsOf(likes, req[c].image_id)
                /\ req'[c].liked_by_user = (req[c].action = "like")
          /\ Leaves(c, "commit") =>
                ((PairRows(likes', req[c].image_id, req[c].user_hash) > 0)
                    = (req[c].action = "like"))]_vars

\* A like has returned liked_by_user = true with a count of 0: another
\* client's unlike was committed before the count was read.
C6_Witness ==
    \E c \in Clients :
        /\ Done(c) /\ req[c].action = "like" /\ req[c].status = HTTP_OK
        /\ req[c].liked_by_user = TRUE
        /\ req[c].likes_count = 0

\* A feed response that is ready.
Listed == listing.pc = "done"

\* C7: for every page and limit the handler answers; the page in effect is
\* max(1, page), the limit in effect is min(100, max(1, limit)), the offset is
\* (page - 1) * limit of those two and is never negative, and the response has
\* at most that many items as the limit in effect.
C7_Clamped ==
    Listed =>
        /\ listing.page = (IF listing.page0 < 1 THEN 1 ELSE listing.page0)
        /\ listing.limit = (IF listing.limit0 < 1 THEN 1
                            ELSE IF listing.limit0 > 100 THEN 100
                            ELSE listing.limit0)
        /\ listing.skip = (listing.page - 1) * listing.limit
        /\ listing.skip >= 0
        /\ Len(listing.items) <= listing.limit

\* Page -1 with limit 0 has been served from a store of two images: one item.
C7_Witness ==
    /\ Listed /\ listing.page0 = -1 /\ listing.limit0 = 0
    /\ Len(images) = 2 /\ Len(listing.items) = 1

\* C8: every view model of a feed response carries the number of Like rows of
\* its image as likes_count, and liked_by_user is true exactly when a user_hash
\* was sent and the image has a row with exactly that user_hash; without a
\* user_hash, or with an empty one, liked_by_user is false on every item.
C8_ViewModel ==
    Listed =>
        \A k \in 1..Len(listing.items) :
            LET item == listing.items[k] IN
            /\ item.likes_count = RowsOf(likes, item.id)
            /\ item.liked_by_user =
                  (/\ listing.user_hash.some
                   /\ PairRows(likes, item.id, listing.user_hash.val) > 0)
            /\ (~listing.user_hash.some \/ listing.user_hash.val = <<>>)
                  => item.liked_by_user = FALSE

\* A feed read by "u": one image liked by "u" and another user, one image
\* liked by the other user only.
C8_Witness ==
    /\ Listed /\ listing.user_hash = SomeHash(<<"u">>)
    /\ \E j, k \in 1..Len(listing.items) :
          /\ listing.items[j].likes_count = 2
          /\ listing.items[j].liked_by_user = TRUE
          /\ listing.items[k].likes_count = 1
          /\ listing.items[k].liked_by_user = FALSE

\* Likes of an image made at or after a time.
RecentRows(image_id, since) ==
    BagCardinality([r \in {x \in BagToSet(likes) :
                              x.image_id = image_id /\ x.created_at >= since}
                    |-> likes[r]])

\* What C9 says each sort ranks by.
RankKey(image_id) ==
    IF listing.sort = "popular" THEN RowsOf(likes, image_id)
    ELSE RecentRows(image_id, listing.at - 7)

\* C9: the popular and the trending feed range over all images, those without
\* likes included, popular by the number of Like rows and trending by the
\* number of Like rows made at or after 7 days before the request, highest
\* first: the response is the window of such a ranking, so the item at rank r
\* has fewer than r images above it and at least r images at or above it.
C9_Ranked ==
    (Listed /\ listing.sort \in {"popular", "trending"}) =>
        LET n == Len(images)
            rest == IF n > listing.skip THEN n - listing.skip ELSE 0
        IN /\ Len(listing.items)
                 = (IF rest < listing.limit THEN rest ELSE listing.limit)
           /\ \A j, k \in 1..Len(listing.items) :
                 j # k => listing.items[j].id # listing.items[k].id
           /\ \A k \in 1..Len(listing.items) :
                 LET id == listing.items[k].id
                     rank == listing.skip + k
                 IN /\ id \in 1..n
                    /\ Cardinality({i \in 1..n : RankKey(i) > RankKey(id)}) < rank
                    /\ Cardinality({i \in 1..n : RankKey(i) >= RankKey(id)}) >= rank

\* The trending feed puts an image with one like of this week above an image
\* with two likes that are two weeks old.
C9_Witness ==
    /\ Listed /\ listing.sort = "trending" /\ Len(listing.items) = 2
    /\ listing.items[1].likes_count = 1
    /\ listing.items[2].likes_count = 2
    /\ RecentRows(listing.items[1].id, listing.at - 7) = 1
    /\ RecentRows(listing.items[2].id, listing.at - 7) = 0

\* C10: a like or unlike changes no row but those of its own (image, user)
\* pair, no other step changes the likes at all, an Image record once stored
\* is never changed or removed, and a step adds at most one Image record and
\* is then no step of a like, unlike or feed request.
C10_Frame ==
    [][/\ \A c \in Clients :
            Leaves(c, "commit") =>
                \A r \in BagToSet(likes) \cup BagToSet(likes') :
                    (r.image_id # req[c].image_id \/ r.user_hash # req[c].user_hash)
                        => CopiesIn(r, likes') = CopiesIn(r, likes)
       /\ (\A c \in Clients : ~Leaves(c, "commit")) => likes' = likes
       /\ Len(images') \in {Len(images), Len(images) + 1}
       /\ \A i \in 1..Len(images) : images'[i] = images[i]
       /\ (req' # req \/ listing' # listing) => images' = images]_vars

\* An unlike of one pair has returned while the same image keeps the like of
\* another user and another image keeps a like of the same user.
C10_Witness ==
    \E c \in Clients :
        /\ Done(c) /\ req[c].action = "unlike" /\ req[c].status = HTTP_OK
        /\ PairRows(before, req[c].image_id, req[c].user_hash) = 1
        /\ RowsOf(likes, req[c].image_id) = 1
        /\ \E r \in BagToSet(likes) :
              r.image_id # req[c].image_id /\ r.user_hash = req[c].user_hash

---------------------------------------------------------------------------
(* Specifications *)

\* History: the likes table as it was when the request now served came in.
Sequential(c, image_id, user_hash, action) ==
    Quiet /\ LikeImage(c, image_id, user_hash, action) /\ before' = likes

Concurrent(c, image_id, user_hash, action) ==
    LikeImage(c, image_id, user_hash, action) /\ UNCHANGED before

\* One client that sends one request at a time, every payload included.
Next ==
    \/ (Quiet /\ Len(images) < MaxImages /\ UploadImage)
    \/ \E i \in RequestIds, h \in UserHashes, a \in ActionNames :
          Sequential(1, i, h, a)
    \/ LikeGet(1)
    \/ LikeCommit(1)
    \/ LikeCount(1)
    \/ LikeReturn(1)
    \/ \E p \in PageInputs, l \in LimitInputs, s \in SortNames, h \in ListHashes :
          (Quiet /\ ListImages(p, l, s, h))
    \/ ListReturn

Spec == Init /\ [][Next]_vars

\* The same client while the clock runs between its requests: likes of
\* different ages, ranked by the two sorts that count likes.  Every likes table
\* that likes and unlikes can build is built by likes alone.
NextFeed ==
    \/ (Quiet /\ now < MaxTicks * WINDOW_DAYS /\ Tick)
    \/ (Quiet /\ Len(images) < MaxImages /\ UploadImage)
    \/ \E i \in 1..MaxImages, h \in ValidHashes :
          Sequential(1, i, h, "like")
    \/ LikeGet(1)
    \/ LikeCommit(1)
    \/ LikeCount(1)
    \/ LikeReturn(1)
    \/ \E p \in {1, 2}, l \in {1, MAX_LIMIT}, s \in {"popular", "trending"} :
          (Quiet /\ ListImages(p, l, s, NoHash))
    \/ ListReturn

SpecFeed == Init /\ [][NextFeed]_vars

\* Any number of clients, each request a sequence of steps that interleave.
NextConc ==
    \/ (Len(images) < ConcImages /\ UploadImage)
    \/ \E c \in Clients, i \in 1..ConcImages, h \in ValidHashes, a \in {"like", "unlike"} :
          Concurrent(c, i, h, a)
    \/ \E c \in Clients : LikeGet(c)
    \/ \E c \in Clients : LikeCommit(c)
    \/ \E c \in Clients : LikeCount(c)
    \/ \E c \in Clients : LikeReturn(c)

SpecConc == Init /\ [][NextConc]_vars

====
